---- MODULE Spec2Model ----
(***************************************************************************)
(* Model of the Home Maintenance integration's double-press confirmation   *)
(* button (custom_components/home_maintenance/button.py).                  *)
(*                                                                         *)
(* Time is one integer clock counted in seconds.  A press handler runs to  *)
(* completion at one instant (async_press holds no await), and samples     *)
(* `now` at its first lines, before it arms any timer.  The event loop     *)
(* therefore runs a timer armed by a handler strictly later than           *)
(* now + delay, and possibly late: TimerDue is a strict comparison.        *)
(*                                                                         *)
(* The second part models the due-state sensor (binary_sensor.py): its     *)
(* _update_state as an operator over the task record, the state of the     *)
(* odometer entity and the wall clock, with dates as civil dates, aware    *)
(* datetimes compared as instants, and the local zone's daylight saving.   *)
(* Spec runs the button with the sensor at rest; DueSpec runs the sensor   *)
(* with the button at rest.                                                *)
(*                                                                         *)
(* The third part models the date handling of the add_task and update_task *)
(* websocket commands (websocket.py): what each sends on the connection    *)
(* and hands to the store.  WsSpec runs the commands and the wall clock.   *)
(***************************************************************************)
EXTENDS Integers, FiniteSets, Sequences, TLC

\* ---------------------------------------------------------------- bounds
\* The clock stops at MaxTime; MaxPresses bounds the presses over all tasks;
\* a due callback runs at most MaxLate seconds late.
MaxTime == 12
MaxPresses == 3
MaxLate == 1
\* The sensor's tasks have intervals 1..MaxInterval, and its wall clock runs
\* over MaxDays days from WindowStart.
MaxInterval == 2
MaxDays == 8

\* ------------------------------------------------------------- constants
CONFIRMATION_TIMEOUT == 5
CONFIRMED_DISPLAY_TIME == 3

\* A key that is absent from a timestamp table / from the handle table.
None == -1
NoHandle == 0

Tasks == {"a", "b"}

ICON_CONFIRMED == "mdi:check-circle"
ICON_PENDING == "mdi:alert-circle"
ICON_DEFAULT == "mdi:check-circle-outline"

VARIABLES
    now,              \* dt_util.now(), seconds
    pending,          \* _pending_confirmations: task -> first press time
    confirmed,        \* _confirmed_tasks: task -> confirmation time
    reset_timers,     \* _reset_timers: task -> T1 handle
    loop_t1,          \* event loop: scheduled, not cancelled, not yet run T1 callbacks
    loop_t2,          \* event loop: scheduled display-reset (T2) callbacks
    displayed,        \* icon of the last state written for each button entity
    commits,          \* number of store.update_last_performed calls per task
    presses,          \* number of async_press calls per task
    store,            \* whether hass.data[DOMAIN].get("store") yields a store
    owner,            \* history: which press of the task wrote its pending entry
    origin,           \* history: the branch that wrote the task's pending entry
    last,             \* history: the handler that ran last
    refreshed,        \* history: the tasks whose refresh the last handler requested
    update_calls,     \* history: the store updates the step just taken issued
    sensor_task,      \* the sensor's task record (self.task)
    hass_state,       \* hass.states.get(odometer_entity)
    dt_now,           \* dt_util.now(): local day (ordinal) and hour
    sensor,           \* the sensor's is_on and extra state attributes
    ws_msg,           \* history: the websocket command handled last, and its clock
    connection,       \* what that command sent: send_error and send_result calls
    store_log,        \* the store.add and store.update_task calls of that command
    raised            \* the exception that command raised, "" when none

vars == <<now, pending, confirmed, reset_timers, loop_t1, loop_t2,
          displayed, commits, presses, store, owner, origin, last, refreshed,
          update_calls, sensor_task, hass_state, dt_now, sensor,
          ws_msg, connection, store_log, raised>>

sensorVars == <<sensor_task, hass_state, dt_now, sensor>>

wsVars == <<ws_msg, connection, store_log, raised>>

buttonVars == <<now, pending, confirmed, reset_timers, loop_t1, loop_t2,
                displayed, commits, presses, store, owner, origin, last,
                refreshed, update_calls>>

\* The tables a handler works on, as one record; a handler starts with no
\* refresh requested.
Tables ==
    [pending |-> pending, confirmed |-> confirmed, reset_timers |-> reset_timers,
     loop_t1 |-> loop_t1, loop_t2 |-> loop_t2, displayed |-> displayed,
     commits |-> commits, owner |-> owner, origin |-> origin,
     refreshed |-> {}, update_calls |-> {}]

\* ------------------------------------------------------- time comparisons
WithinTimeout(first_press_time) == now - first_press_time <= CONFIRMATION_TIMEOUT

\* Mutant: the sweep takes an entry for expired one second after its press.
PendingExpired_Early(timestamp) == now - timestamp > 0

PendingExpired(timestamp) == now - timestamp > CONFIRMATION_TIMEOUT

ConfirmedVisible(confirmed_time) == now - confirmed_time <= CONFIRMED_DISPLAY_TIME

ConfirmedExpired(timestamp) == now - timestamp > CONFIRMED_DISPLAY_TIME

TimerDue(tm) == now > tm.when

\* ------------------------------------------------------------ event loop
call_later(loop, t, id, delay) ==
    loop \cup {[task |-> t, id |-> id, when |-> now + delay]}

\* Mutant: cancelling a handle leaves its callback scheduled.
cancel_Noop(loop, t, handle) == loop

cancel(loop, t, handle) ==
    {tm \in loop : ~(tm.task = t /\ tm.id = handle)}

\* ------------------------------------------------------------------ icon
\* The value the icon property returns.
icon(S, t) ==
    IF S.confirmed[t] # None /\ ConfirmedVisible(S.confirmed[t])
    THEN ICON_CONFIRMED
    ELSE IF S.pending[t] # None THEN ICON_PENDING ELSE ICON_DEFAULT

\* The tables after the icon property has run.
icon_effect(S, t) ==
    IF S.confirmed[t] # None /\ ~ConfirmedVisible(S.confirmed[t])
    THEN [S EXCEPT !.confirmed[t] = None]
    ELSE S

\* async_write_ha_state of task t's button: the state machinery reads the
\* icon property and publishes its value.
async_write_ha_state(S, t) ==
    [icon_effect(S, t) EXCEPT !.displayed[t] = icon(S, t),
                              !.refreshed = @ \cup {t}]

\* --------------------------------------------------------- press branches
\* Mutant: the timer is cancelled and its handle stays in the table.
DropTimer_KeepHandle(S, t) ==
    IF S.reset_timers[t] # NoHandle
    THEN [S EXCEPT !.loop_t1 = cancel(S.loop_t1, t, S.reset_timers[t])]
    ELSE S

\* Cancel the task's T1 and delete its handle, when it has one.
DropTimer(S, t) ==
    IF S.reset_timers[t] # NoHandle
    THEN [S EXCEPT !.loop_t1 = cancel(S.loop_t1, t, S.reset_timers[t]),
                   !.reset_timers[t] = NoHandle]
    ELSE S

\* ------------------------------------------------------ odometer sampling
DistanceTypes == {"kilometers", "miles"}

IntervalTypes == {"days", "weeks", "months", "kilometers", "miles"}

\* The task records the two button entities were built from; "" is a task
\* with no odometer_entity.
TaskOf ==
    [a |-> [interval_type |-> "kilometers", odometer_entity |-> "sensor.odometer"],
     b |-> [interval_type |-> "days", odometer_entity |-> "sensor.odometer"]]

\* What hass.states.get returns for the odometer entity: no state object, or
\* a state object with its state string.
NoState == [exists |-> FALSE, state |-> ""]

EntityStates ==
    {NoState} \cup
    [exists : {TRUE}, state : {"unknown", "unavailable", "n/a", "1500"}]

\* float(): the strings of EntityStates it accepts, with their values; it
\* raises ValueError for the others.
FloatOf == ("1500" :> 1500) @@ ("1501" :> 1501)

\* Mutant: the reading is sampled whatever the interval type.
performed_odometer_AnyType(task, hs) ==
    IF task.odometer_entity # ""
    THEN IF hs.exists /\ hs.state \notin {"unknown", "unavailable"}
         THEN IF hs.state \in DOMAIN FloatOf THEN FloatOf[hs.state] ELSE None
         ELSE None
    ELSE None

\* The performed_odometer argument the confirm branch computes.
performed_odometer(task, hs) ==
    IF task.interval_type \in DistanceTypes
    THEN IF task.odometer_entity # ""
         THEN IF hs.exists /\ hs.state \notin {"unknown", "unavailable"}
              THEN IF hs.state \in DOMAIN FloatOf
                   THEN FloatOf[hs.state]
                   ELSE None
              ELSE None
         ELSE None
    ELSE None

StoreUpdate(S, t, seq, st, hs) ==
    IF st
    THEN [S EXCEPT !.commits[t] = @ + 1,
                   !.update_calls = @ \cup
                       {[task |-> t, state |-> hs,
                         performed_odometer |-> performed_odometer(TaskOf[t], hs)]},
                   !.loop_t2 = call_later(@, t, seq, CONFIRMED_DISPLAY_TIME)]
    ELSE S

\* Mutant: the confirm branch forgets the handle and leaves T1 scheduled.
ConfirmBranch_NoCancel(S, t, seq, st, hs) ==
    LET S1 == [S EXCEPT !.pending[t] = None, !.owner[t] = 0, !.origin[t] = "none",
                        !.reset_timers[t] = NoHandle]
        S3 == [S1 EXCEPT !.confirmed[t] = now]
        S4 == async_write_ha_state(S3, t)
    IN  StoreUpdate(S4, t, seq, st, hs)

ConfirmBranch(S, t, seq, st, hs) ==
    LET S1 == [S EXCEPT !.pending[t] = None, !.owner[t] = 0, !.origin[t] = "none"]
        S2 == DropTimer(S1, t)
        S3 == [S2 EXCEPT !.confirmed[t] = now]
        S4 == async_write_ha_state(S3, t)
    IN  StoreUpdate(S4, t, seq, st, hs)

ArmT1(S, t, seq) ==
    [S EXCEPT !.loop_t1 = call_later(@, t, seq, CONFIRMATION_TIMEOUT),
              !.reset_timers[t] = seq]

\* Mutant: the expired branch re-arms without cancelling the old T1.
RestartBranch_NoCancel(S, t, seq) ==
    LET S2 == [S EXCEPT !.pending[t] = now, !.owner[t] = seq,
                        !.origin[t] = "restart"]
        S3 == async_write_ha_state(S2, t)
    IN  ArmT1(S3, t, seq)

RestartBranch(S, t, seq) ==
    LET S1 == DropTimer(S, t)
        S2 == [S1 EXCEPT !.pending[t] = now, !.owner[t] = seq,
                         !.origin[t] = "restart"]
        S3 == async_write_ha_state(S2, t)
    IN  ArmT1(S3, t, seq)

FirstBranch(S, t, seq) ==
    LET S1 == [S EXCEPT !.pending[t] = now, !.owner[t] = seq,
                        !.origin[t] = "first"]
        S2 == async_write_ha_state(S1, t)
        S3 == IF S2.reset_timers[t] # NoHandle
              THEN [S2 EXCEPT !.loop_t1 = cancel(@, t, S2.reset_timers[t])]
              ELSE S2
    IN  ArmT1(S3, t, seq)

\* ----------------------------------------------------------------- sweeps
\* The task ids the pending sweep collects.
ExpiredPending(S) ==
    {tid \in Tasks : S.pending[tid] # None /\ PendingExpired(S.pending[tid])}

RECURSIVE SweepPendingOver(_, _)
SweepPendingOver(S, todo) ==
    IF todo = {} THEN S
    ELSE LET tid == CHOOSE x \in todo : TRUE
             S1 == [S EXCEPT !.pending[tid] = None, !.owner[tid] = 0,
                             !.origin[tid] = "none"]
             S2 == DropTimer(S1, tid)
             S3 == async_write_ha_state(S2, tid)
         IN  SweepPendingOver(S3, todo \ {tid})

SweepPending(S) == SweepPendingOver(S, ExpiredPending(S))

SweepConfirmed(S) ==
    [S EXCEPT !.confirmed =
        [tid \in Tasks |->
            IF S.confirmed[tid] # None /\ ConfirmedExpired(S.confirmed[tid])
            THEN None ELSE S.confirmed[tid]]]

\* ----------------------------------------------------------- async_press
\* Mutant: the handler commits on every press, pending or not.
PressBranch_AlwaysConfirm(S, t, seq, st, hs) ==
    ConfirmBranch(S, t, seq, st, hs)

PressBranch(S, t, seq, st, hs) ==
    IF S.pending[t] # None
    THEN IF WithinTimeout(S.pending[t])
         THEN ConfirmBranch(S, t, seq, st, hs)
         ELSE RestartBranch(S, t, seq)
    ELSE FirstBranch(S, t, seq)

async_press(S, t, seq, st, hs) ==
    SweepConfirmed(SweepPending(PressBranch(S, t, seq, st, hs)))

\* ------------------------------------------------------------- reset_icon
\* Mutant: the callback clears the tables and forgets the display refresh.
reset_icon_NoRefresh(S, t) ==
    IF S.pending[t] # None
    THEN [S EXCEPT !.pending[t] = None, !.owner[t] = 0, !.origin[t] = "none",
                   !.reset_timers[t] = NoHandle]
    ELSE S

reset_icon(S, t) ==
    IF S.pending[t] # None
    THEN LET S1 == [S EXCEPT !.pending[t] = None, !.owner[t] = 0, !.origin[t] = "none"]
             S2 == IF S1.reset_timers[t] # NoHandle
                   THEN [S1 EXCEPT !.reset_timers[t] = NoHandle]
                   ELSE S1
         IN  async_write_ha_state(S2, t)
    ELSE S


\* ================================================================ sensor
\* ---------------------------------------------------------------- dates
IsLeap(y) == (y % 4 = 0 /\ y % 100 # 0) \/ y % 400 = 0

DaysInMonth(y, m) ==
    IF m = 2 THEN (IF IsLeap(y) THEN 29 ELSE 28)
    ELSE IF m \in {4, 6, 9, 11} THEN 30 ELSE 31

\* The days of a common year before each month.
DAYS_BEFORE_MONTH == <<0, 31, 59, 90, 120, 151, 181, 212, 243, 273, 304, 334>>

DaysBeforeMonth(y, m) ==
    DAYS_BEFORE_MONTH[m] + (IF m > 2 /\ IsLeap(y) THEN 1 ELSE 0)

DaysBeforeYear(y) ==
    LET p == y - 1
    IN  (p * 365) + (p \div 4) - (p \div 100) + (p \div 400)

\* date.toordinal(): day 1 is 0001-01-01.
toordinal(y, m, d) == DaysBeforeYear(y) + DaysBeforeMonth(y, m) + d

\* The years the model's dates fall in.
Years == 2023..2025

\* date.fromordinal().
fromordinal(n) ==
    LET y == CHOOSE yy \in Years :
                 DaysBeforeYear(yy) < n /\ n <= DaysBeforeYear(yy + 1)
        r == n - DaysBeforeYear(y)
        m == CHOOSE mm \in 1..12 :
                 DaysBeforeMonth(y, mm) < r
                     /\ r <= DaysBeforeMonth(y, mm) + DaysInMonth(y, mm)
    IN  [y |-> y, m |-> m, d |-> r - DaysBeforeMonth(y, m)]

\* A datetime: civil date, hour, and for an aware one its UTC offset in
\* hours (minutes and seconds are zero throughout).
datetime(y, m, d, hh, aware, off) ==
    [y |-> y, m |-> m, d |-> d, hh |-> hh, aware |-> aware, off |-> off]

\* What parse_datetime returns for a string it cannot parse.
NoDate == datetime(0, 0, 0, 0, FALSE, 0)

\* Mutant: datetimes are compared by the day of the month, not by the date.
Instant_DayOfMonth(dt) == (dt.d * 24) + dt.hh - dt.off

\* The instant of an aware datetime, in hours: aware datetimes compare by it.
Instant(dt) == (toordinal(dt.y, dt.m, dt.d) * 24) + dt.hh - dt.off

\* dt + timedelta(days=n).
timedelta_days(dt, n) ==
    LET c == fromordinal(toordinal(dt.y, dt.m, dt.d) + n)
    IN  [dt EXCEPT !.y = c.y, !.m = c.m, !.d = c.d]

\* Mutant: the day of month is kept and runs over into the next month.
relativedelta_months_Overflow(dt, n) ==
    LET total == dt.m - 1 + n
        y == dt.y + (total \div 12)
        m == (total % 12) + 1
        c == fromordinal(toordinal(y, m, 1) + dt.d - 1)
    IN  [dt EXCEPT !.y = c.y, !.m = c.m, !.d = c.d]

\* dt + relativedelta(months=n): the day is clipped to the target month.
relativedelta_months(dt, n) ==
    LET total == dt.m - 1 + n
        y == dt.y + (total \div 12)
        m == (total % 12) + 1
        last_day == DaysInMonth(y, m)
    IN  [dt EXCEPT !.y = y, !.m = m,
                   !.d = IF dt.d > last_day THEN last_day ELSE dt.d]

\* dt.replace(hour=0, minute=0, second=0, microsecond=0) of a datetime with
\* a fixed offset: the offset stays.
replace_midnight(dt) == [dt EXCEPT !.hh = 0]

\* The local zone (Europe/Rome): UTC+1, and UTC+2 from 2024-03-31 02:00
\* to 2024-10-27 03:00 local time.
DstStart == toordinal(2024, 3, 31)

DstEnd == toordinal(2024, 10, 27)

utcoffset(ord, hh) ==
    IF /\ ord > DstStart \/ (ord = DstStart /\ hh >= 3)
       /\ ord < DstEnd \/ (ord = DstEnd /\ hh < 2)
    THEN 2 ELSE 1

\* The first day of the wall clock's window.
WindowStart == toordinal(2024, 3, 25)

\* dt_util.now() for the wall clock at local day ord, hour hh.
dt_util_now(nw) ==
    LET c == fromordinal(nw.ord)
    IN  datetime(c.y, c.m, c.d, nw.hh, TRUE, utcoffset(nw.ord, nw.hh))

\* replace(hour=0, ...) of a datetime in the local zone: the zone gives the
\* offset of the new wall time.
replace_midnight_local(dt) ==
    [dt EXCEPT !.hh = 0, !.off = utcoffset(toordinal(dt.y, dt.m, dt.d), 0)]

\* dt_util.as_utc of a naive datetime: taken as local time, converted to UTC.
as_utc(dt) ==
    LET ord == toordinal(dt.y, dt.m, dt.d)
        inst == (ord * 24) + dt.hh - utcoffset(ord, dt.hh)
        c == fromordinal(inst \div 24)
    IN  datetime(c.y, c.m, c.d, inst % 24, TRUE, 0)

\* dt_util.parse_datetime on the strings of the model: the datetimes of the
\* strings it parses; it returns None for the others.
Parsed ==
    ("2024-03-25T00:00:00+01:00" :> datetime(2024, 3, 25, 0, TRUE, 1)) @@
    ("2024-02-29T00:00:00+01:00" :> datetime(2024, 2, 29, 0, TRUE, 1)) @@
    ("2024-01-31T00:00:00+01:00" :> datetime(2024, 1, 31, 0, TRUE, 1)) @@
    ("2023-01-31T00:00:00+01:00" :> datetime(2023, 1, 31, 0, TRUE, 1)) @@
    ("2024-03-25T22:00:00" :> datetime(2024, 3, 25, 22, FALSE, 0))

LastPerformedStrings == DOMAIN Parsed \cup {"31/01/2024"}

\* The same for the strings a websocket message may carry besides: a
\* datetime given in UTC.
ParsedMessage ==
    Parsed @@
    ("2024-03-31T23:00:00+00:00" :> datetime(2024, 3, 31, 23, TRUE, 0))

parse_datetime(str) ==
    IF str \in DOMAIN ParsedMessage THEN ParsedMessage[str] ELSE NoDate

Pad2(n) == IF n < 10 THEN "0" \o ToString(n) ELSE ToString(n)

\* datetime.isoformat() of an aware datetime.
isoformat(dt) ==
    ToString(dt.y) \o "-" \o Pad2(dt.m) \o "-" \o Pad2(dt.d) \o "T"
        \o Pad2(dt.hh) \o ":00:00+" \o Pad2(dt.off) \o ":00"

\* ------------------------------------------------------- the computation
calculate_next_due_date(last_performed, interval_value, interval_type) ==
    IF interval_type \in DistanceTypes THEN NoDate
    ELSE IF interval_type = "days"
         THEN timedelta_days(last_performed, interval_value)
    ELSE IF interval_type = "weeks"
         THEN timedelta_days(last_performed, 7 * interval_value)
    ELSE IF interval_type = "months"
         THEN relativedelta_months(last_performed, interval_value)
    ELSE last_performed

calculate_next_due_odometer(last_odometer, interval_value, interval_type) ==
    IF interval_type \notin DistanceTypes THEN None
    ELSE IF last_odometer = None THEN None
    ELSE last_odometer + interval_value

get_current_odometer(tk, hs) ==
    IF tk.odometer_entity = "" THEN None
    ELSE IF hs.exists /\ hs.state \notin {"unknown", "unavailable"}
         THEN IF hs.state \in DOMAIN FloatOf THEN FloatOf[hs.state] ELSE None
    ELSE None

\* The sensor's state and attributes; None is an attribute that is not set.
SensorState(tk, on, next_due, last_odometer, current, next_odometer) ==
    [is_on |-> on, interval_value |-> tk.interval_value,
     interval_type |-> tk.interval_type, next_due |-> next_due,
     last_performed |-> tk.last_performed, last_odometer |-> last_odometer,
     current_odometer |-> current, next_due_odometer |-> next_odometer]

\* Mutant: the distance branch is due only beyond the threshold.
distance_state_Strict(tk, hs) ==
    LET last_odometer == tk.last_odometer
        current_odometer == get_current_odometer(tk, hs)
        next_due_odometer ==
            calculate_next_due_odometer(last_odometer, tk.interval_value,
                                        tk.interval_type)
    IN  IF last_odometer = None \/ current_odometer = None
        THEN SensorState(tk, FALSE, "unknown (odometer not available)",
                         last_odometer, current_odometer, next_due_odometer)
        ELSE SensorState(tk, current_odometer > next_due_odometer,
                         ToString(next_due_odometer) \o " " \o tk.interval_type,
                         last_odometer, current_odometer, next_due_odometer)

\* _update_state, branch of the kilometers and miles tasks.
distance_state(tk, hs) ==
    LET last_odometer == tk.last_odometer
        current_odometer == get_current_odometer(tk, hs)
        next_due_odometer ==
            calculate_next_due_odometer(last_odometer, tk.interval_value,
                                        tk.interval_type)
    IN  IF last_odometer = None \/ current_odometer = None
        THEN SensorState(tk, FALSE, "unknown (odometer not available)",
                         last_odometer, current_odometer, next_due_odometer)
        ELSE SensorState(tk, current_odometer >= next_due_odometer,
                         ToString(next_due_odometer) \o " " \o tk.interval_type,
                         last_odometer, current_odometer, next_due_odometer)

\* Mutant: an unparsable date hides the task.
time_state_FailClosed(tk, nw) ==
    LET parsed == parse_datetime(tk.last_performed)
        last_dt == IF parsed.aware THEN parsed ELSE as_utc(parsed)
        due == calculate_next_due_date(last_dt, tk.interval_value, tk.interval_type)
        due_date == replace_midnight(due)
    IN  IF parsed = NoDate
        THEN SensorState(tk, FALSE, "unknown", None, None, None)
        ELSE IF due # NoDate
        THEN SensorState(tk,
                 Instant(replace_midnight_local(dt_util_now(nw)))
                     >= Instant(due_date),
                 isoformat(due_date), None, None, None)
        ELSE SensorState(tk, FALSE, "unknown", None, None, None)

\* _update_state, branch of the other tasks.
time_state(tk, nw) ==
    LET parsed == parse_datetime(tk.last_performed)
        last_dt == IF parsed.aware THEN parsed ELSE as_utc(parsed)
        due == calculate_next_due_date(last_dt, tk.interval_value, tk.interval_type)
        due_date == replace_midnight(due)
    IN  IF parsed = NoDate
        THEN SensorState(tk, TRUE, "unknown", None, None, None)
        ELSE IF due # NoDate
        THEN SensorState(tk,
                 Instant(replace_midnight_local(dt_util_now(nw)))
                     >= Instant(due_date),
                 isoformat(due_date), None, None, None)
        ELSE SensorState(tk, FALSE, "unknown", None, None, None)

\* Mutant: the branch is chosen by the odometer entity, not by the type.
update_state_ByEntity(tk, hs, nw) ==
    IF tk.odometer_entity # ""
    THEN distance_state(tk, hs)
    ELSE time_state(tk, nw)

update_state(tk, hs, nw) ==
    IF tk.interval_type \in DistanceTypes
    THEN distance_state(tk, hs)
    ELSE time_state(tk, nw)

\* ------------------------------------------------------- sensor's actions
\* The task records a sensor is built from; "years" is no interval type the
\* sensor knows.
TaskRecords ==
    [interval_type : IntervalTypes \cup {"years"},
     interval_value : 1..MaxInterval,
     last_performed : LastPerformedStrings,
     last_odometer : {None, 1498, 1499},
     odometer_entity : {"", "sensor.odometer"}]

async_update ==
    /\ sensor' = update_state(sensor_task, hass_state, dt_now)
    /\ UNCHANGED <<sensor_task, hass_state, dt_now>>
    /\ UNCHANGED buttonVars
    /\ UNCHANGED wsVars

\* The wall clock moves on: to the last hour of the day, then to the next day.
ClockStep ==
    /\ dt_now' = IF dt_now.hh = 0
                 THEN [dt_now EXCEPT !.hh = 23]
                 ELSE [ord |-> dt_now.ord + 1, hh |-> 0]
    /\ dt_now'.ord <= WindowStart + MaxDays
    /\ UNCHANGED <<sensor_task, hass_state, sensor>>
    /\ UNCHANGED buttonVars
    /\ UNCHANGED wsVars

\* The states the odometer entity takes while the sensor is watched: those
\* of EntityStates and a second, higher reading.
OdometerStates == EntityStates \cup {[exists |-> TRUE, state |-> "1501"]}

\* The odometer entity reports a new state.
OdometerChange ==
    /\ \E hs \in OdometerStates \ {hass_state} : hass_state' = hs
    /\ UNCHANGED <<sensor_task, dt_now, sensor>>
    /\ UNCHANGED buttonVars
    /\ UNCHANGED wsVars

\* ============================================================= websocket
\* dt_util.as_local: a naive datetime is taken as local time, an aware one
\* is converted to the local zone.
as_local(dt) ==
    IF ~dt.aware
    THEN [dt EXCEPT !.aware = TRUE,
                    !.off = utcoffset(toordinal(dt.y, dt.m, dt.d), dt.hh)]
    ELSE LET utc == Instant(dt)
             off == IF utc >= (DstStart * 24) + 1 /\ utc < (DstEnd * 24) + 1
                    THEN 2 ELSE 1
             loc == utc + off
             c == fromordinal(loc \div 24)
         IN  datetime(c.y, c.m, c.d, loc % 24, TRUE, off)

\* The last_performed strings a message carries; "" is the empty field.
MessageStrings == DOMAIN ParsedMessage \cup {"31/01/2024", ""}

\* The fields of a message that the date handling reads: whether the
\* optional last_performed key is there, and its string.
Messages ==
    [has_last_performed : {TRUE}, last_performed : MessageStrings]
        \cup {[has_last_performed |-> FALSE, last_performed |-> ""]}

\* The lines both commands share: last_performed read from the message and
\* normalised, or the reason why there is none.
ws_last_performed(fields, nw) ==
    IF ~fields.has_last_performed
    THEN [outcome |-> "KeyError", value |-> ""]
    ELSE LET last_str == fields.last_performed
             parsed == parse_datetime(last_str)
         IN  IF last_str # ""
             THEN IF parsed = NoDate
                  THEN [outcome |-> "invalid_date", value |-> ""]
                  ELSE [outcome |-> "ok",
                        value |-> isoformat(replace_midnight_local(as_local(parsed)))]
             ELSE [outcome |-> "ok",
                   value |-> isoformat(replace_midnight_local(dt_util_now(nw)))]

\* What a command leaves behind: the messages sent, the store call made and
\* the exception raised.
Handled(type, op, fields) ==
    LET r == ws_last_performed(fields, dt_now)
    IN  /\ ws_msg' = [type |-> type, fields |-> fields, at |-> dt_now]
        /\ raised' = IF r.outcome = "KeyError" THEN "KeyError" ELSE ""
        /\ connection' =
              IF r.outcome = "invalid_date"
              THEN <<[type |-> "error", code |-> "invalid_date"]>>
              ELSE IF r.outcome = "ok"
              THEN <<[type |-> "result", code |-> "success"]>>
              ELSE <<>>
        /\ store_log' =
              IF r.outcome = "ok"
              THEN <<[op |-> op, last_performed |-> r.value]>>
              ELSE <<>>

websocket_add_task(msg) ==
    /\ Handled("add_task", "add", msg)
    /\ UNCHANGED buttonVars
    /\ UNCHANGED sensorVars

websocket_update_task(msg) ==
    /\ Handled("update_task", "update_task", msg)
    /\ UNCHANGED buttonVars
    /\ UNCHANGED sensorVars

\* ---------------------------------------------------------------- actions
TotalPresses == presses["a"] + presses["b"]

Install(S) ==
    /\ pending' = S.pending
    /\ confirmed' = S.confirmed
    /\ reset_timers' = S.reset_timers
    /\ loop_t1' = S.loop_t1
    /\ loop_t2' = S.loop_t2
    /\ displayed' = S.displayed
    /\ commits' = S.commits
    /\ owner' = S.owner
    /\ origin' = S.origin
    /\ refreshed' = S.refreshed
    /\ update_calls' = S.update_calls

Press(t) ==
    /\ TotalPresses < MaxPresses
    /\ presses' = [presses EXCEPT ![t] = @ + 1]
    /\ \E hs \in EntityStates :
          Install(async_press(Tables, t, presses[t] + 1, store, hs))
    /\ last' = [kind |-> "press", task |-> t]
    /\ UNCHANGED <<now, store>>
    /\ UNCHANGED sensorVars
    /\ UNCHANGED wsVars

FireT1(tm) ==
    /\ tm \in loop_t1
    /\ TimerDue(tm)
    /\ Install(reset_icon([Tables EXCEPT !.loop_t1 = @ \ {tm}], tm.task))
    /\ last' = [kind |-> "t1", task |-> tm.task]
    /\ UNCHANGED <<now, presses, store>>
    /\ UNCHANGED sensorVars
    /\ UNCHANGED wsVars

FireT2(tm) ==
    /\ tm \in loop_t2
    /\ TimerDue(tm)
    /\ Install(async_write_ha_state([Tables EXCEPT !.loop_t2 = @ \ {tm}], tm.task))
    /\ last' = [kind |-> "t2", task |-> tm.task]
    /\ UNCHANGED <<now, presses, store>>
    /\ UNCHANGED sensorVars
    /\ UNCHANGED wsVars

\* Home Assistant writes the entity's state on its own account (entity added,
\* registry update): the icon property runs, the button requested nothing.
ReadIcon(t) ==
    /\ Install([async_write_ha_state(Tables, t) EXCEPT !.refreshed = {}])
    /\ last' = [kind |-> "read", task |-> t]
    /\ UNCHANGED <<now, presses, store>>
    /\ UNCHANGED sensorVars
    /\ UNCHANGED wsVars

\* The integration sets the store up and tears it down outside this file.
StoreChange ==
    /\ store' = ~store
    /\ UNCHANGED <<now, pending, confirmed, reset_timers, loop_t1, loop_t2,
                   displayed, commits, presses, owner, origin, last, refreshed>>
    /\ update_calls' = {}
    /\ UNCHANGED sensorVars
    /\ UNCHANGED wsVars

Tick ==
    /\ now < MaxTime
    /\ \A tm \in loop_t1 \cup loop_t2 : now - tm.when - 1 < MaxLate
    /\ now' = now + 1
    /\ UNCHANGED <<pending, confirmed, reset_timers, loop_t1, loop_t2,
                   displayed, commits, presses, store, owner, origin, last,
                   refreshed>>
    /\ update_calls' = {}
    /\ UNCHANGED sensorVars
    /\ UNCHANGED wsVars

ButtonInit ==
    /\ now = 0
    /\ pending = [t \in Tasks |-> None]
    /\ confirmed = [t \in Tasks |-> None]
    /\ reset_timers = [t \in Tasks |-> NoHandle]
    /\ loop_t1 = {}
    /\ loop_t2 = {}
    /\ displayed = [t \in Tasks |-> ICON_DEFAULT]
    /\ commits = [t \in Tasks |-> 0]
    /\ presses = [t \in Tasks |-> 0]
    /\ store = TRUE
    /\ owner = [t \in Tasks |-> 0]
    /\ origin = [t \in Tasks |-> "none"]
    /\ last = [kind |-> "init", task |-> "a"]
    /\ refreshed = {}
    /\ update_calls = {}

\* The sensor entity as its constructor leaves it for task record tk.
SensorInit(tk) ==
    /\ sensor_task = tk
    /\ hass_state = NoState
    /\ dt_now = [ord |-> WindowStart, hh |-> 0]
    /\ sensor = update_state(tk, NoState, [ord |-> WindowStart, hh |-> 0])

\* No websocket command has been handled.
WsInit ==
    /\ ws_msg = [type |-> "none",
                 fields |-> [has_last_performed |-> FALSE, last_performed |-> ""],
                 at |-> [ord |-> WindowStart, hh |-> 0]]
    /\ connection = <<>>
    /\ store_log = <<>>
    /\ raised = ""

Init ==
    /\ ButtonInit
    /\ WsInit
    /\ SensorInit([interval_type |-> "days", interval_value |-> 1,
                   last_performed |-> "2024-03-25T00:00:00+01:00",
                   last_odometer |-> None, odometer_entity |-> ""])

Next ==
    \/ \E t \in Tasks : Press(t)
    \/ \E tm \in loop_t1 : FireT1(tm)
    \/ \E tm \in loop_t2 : FireT2(tm)
    \/ \E t \in Tasks : ReadIcon(t)
    \/ StoreChange
    \/ Tick

Spec == Init /\ [][Next]_vars

\* The event loop runs a due callback, and time passes.
FairSpec ==
    /\ Spec
    /\ WF_vars(Tick)
    /\ WF_vars(\E tm \in loop_t1 : FireT1(tm))
    /\ WF_vars(\E tm \in loop_t2 : FireT2(tm))

\* The sensor on its own: any task record, the wall clock and the odometer
\* entity moving, the sensor polled.
DueInit == ButtonInit /\ WsInit /\ \E tk \in TaskRecords : SensorInit(tk)

DueNext == async_update \/ ClockStep \/ OdometerChange

DueSpec == DueInit /\ [][DueNext]_vars

\* The websocket commands on their own: add_task and update_task messages
\* arrive while the wall clock moves.
WsNext ==
    \/ \E msg \in Messages : websocket_add_task(msg)
    \/ \E msg \in Messages : websocket_update_task(msg)
    \/ ClockStep

WsSpec == Init /\ [][WsNext]_vars

\* ------------------------------------------------------------ vocabulary
PressOn(t) == presses'[t] = presses[t] + 1

IsPending(t) == pending[t] # None

IsConfirmed(t) == confirmed[t] # None

\* A press on t that finds t pending with the window still open.
SecondPress(t) ==
    PressOn(t) /\ IsPending(t) /\ now - pending[t] <= CONFIRMATION_TIMEOUT

\* A press on t that finds t pending with the window elapsed.
StalePress(t) ==
    PressOn(t) /\ IsPending(t) /\ now - pending[t] > CONFIRMATION_TIMEOUT

\* ==================================================================== C1
\* C1: a single press never commits.  Every store update for a task T is
\* issued in a press on T that finds T pending with
\* now - first_press_at <= CONFIRMATION_TIMEOUT, one update at a time, and
\* the commits of T never exceed half the presses on T.
C1_CommitNeedsTwoPresses ==
    /\ [](\A t \in Tasks : 2 * commits[t] <= presses[t])
    /\ [][\A t \in Tasks :
            commits'[t] # commits[t] =>
                /\ SecondPress(t)
                /\ commits'[t] = commits[t] + 1]_vars

C1_Witness ==
    /\ commits["a"] = 1
    /\ presses["a"] = 3
    /\ last = [kind |-> "press", task |-> "a"]

\* ==================================================================== C2
\* C2: every press on T that finds T pending with elapsed <=
\* CONFIRMATION_TIMEOUT issues exactly one store update for T, and nothing
\* but such a press issues one.
C2_ExactlyOneUpdate ==
    [][\A t \in Tasks :
          /\ SecondPress(t) => commits'[t] = commits[t] + 1
          /\ ~SecondPress(t) => commits'[t] = commits[t]]_vars

\* ==================================================================== C3
\* C3: no task id is pending a second press and recently confirmed at the
\* same time.
C3_OnePhasePerTask ==
    \A t \in Tasks : ~(IsPending(t) /\ IsConfirmed(t))

\* ==================================================================== C4
\* Idle with the default indicator: no pending entry, no confirmed entry,
\* no T1 handle, no scheduled T1, and the default icon on display.
IdleDefault(t) ==
    /\ pending[t] = None
    /\ confirmed[t] = None
    /\ reset_timers[t] = NoHandle
    /\ \A tm \in loop_t1 : tm.task # t
    /\ displayed[t] = ICON_DEFAULT

\* A pending entry whose T1 comes due within the model's horizon.
PendingInHorizon(t) ==
    IsPending(t) /\ pending[t] + CONFIRMATION_TIMEOUT < MaxTime

\* C4: abandoned first press.  Once the presses on a task have ended, its
\* pending entry eventually goes; when a pending entry goes without a press
\* on its task (by T1 or by a sweep), the task is Idle with the default
\* indicator, its pending entry and timer handle removed, and no commit was
\* issued for it.
C4_AbandonedFirstPress ==
    /\ <>[](\A t \in Tasks : ~PendingInHorizon(t))
    /\ [][\A t \in Tasks :
            (IsPending(t) /\ ~PressOn(t) /\ pending'[t] # pending[t]) =>
                /\ IdleDefault(t)'
                /\ commits'[t] = commits[t]]_vars

\* T1 has run for the only press on task a.
C4_Witness ==
    /\ presses = [a |-> 1, b |-> 0]
    /\ last = [kind |-> "t1", task |-> "a"]
    /\ IdleDefault("a")
    /\ commits["a"] = 0

\* ==================================================================== C5
\* T1 of the pending entry of t, as scheduled on the event loop.
T1Of(t) == {tm \in loop_t1 : tm.task = t /\ tm.id = reset_timers[t]}

\* What a stale press on t does: no commit, first_press_at replaced by now,
\* the old T1 cancelled and a new one armed, t left pending with the
\* pending indicator once the handler and its sweeps have returned.
C5_StaleRestart ==
    [][\A t \in Tasks :
          StalePress(t) =>
              /\ commits' = commits
              /\ pending'[t] = now
              /\ T1Of(t) # {}
              /\ T1Of(t) \cap loop_t1' = {}
              /\ reset_timers'[t] = presses'[t]
              /\ [task |-> t, id |-> presses'[t],
                  when |-> now + CONFIRMATION_TIMEOUT] \in loop_t1'
              /\ confirmed'[t] = None
              /\ displayed'[t] = ICON_PENDING]_vars

\* C5: stale second press.  A press on T that finds T pending with elapsed >
\* CONFIRMATION_TIMEOUT restarts the window as above, and a following press
\* within the new window commits.
C5_StalePressThenCommit ==
    /\ C5_StaleRestart
    /\ [][\A t \in Tasks :
            (SecondPress(t) /\ origin[t] = "restart") =>
                commits'[t] = commits[t] + 1]_vars

\* A stale press restarted the window of task a.
C5_Witness ==
    /\ last = [kind |-> "press", task |-> "a"]
    /\ presses["a"] = 2
    /\ commits["a"] = 0
    /\ pending["a"] = now
    /\ now > CONFIRMATION_TIMEOUT
    /\ presses["b"] = 0

\* ==================================================================== C6
\* What the tables hold about one task.
View(S, t) ==
    [pending |-> S.pending[t], confirmed |-> S.confirmed[t],
     handle |-> S.reset_timers[t],
     timers |-> {tm \in S.loop_t1 : tm.task = t},
     displayed |-> S.displayed[t], commits |-> S.commits[t]]

\* The view of a task that is Idle and has kept its commits.
IdleView(t) ==
    [pending |-> None, confirmed |-> None, handle |-> NoHandle, timers |-> {},
     displayed |-> ICON_DEFAULT, commits |-> commits[t]]

ElapsedPending(t) ==
    IsPending(t) /\ now - pending[t] > CONFIRMATION_TIMEOUT

\* In a state where t is pending with its window elapsed: the T1 callback
\* and the sweep each leave t Idle, and each is a no-op after the other.
C6_BothWays(t) ==
    /\ T1Of(t) # {}
    /\ \A tm \in T1Of(t) :
          LET byTimer == reset_icon([Tables EXCEPT !.loop_t1 = @ \ {tm}], t)
              bySweep == SweepPending(Tables)
          IN  /\ View(byTimer, t) = IdleView(t)
              /\ View(bySweep, t) = IdleView(t)
              /\ t \notin ExpiredPending(byTimer)
              /\ View(SweepPending(byTimer), t) = IdleView(t)
              /\ reset_icon(bySweep, t) = bySweep

\* C6: sweep/timer idempotence.  For a pending task whose window has
\* elapsed, expiry by the sweep of a press on another task and expiry by the
\* T1 callback reach the same end state (Idle, no pending entry, no handle,
\* no scheduled T1, no commit), and the one that comes second changes
\* nothing about the task.
C6_SweepTimerIdempotence ==
    /\ [](\A t \in Tasks : ElapsedPending(t) => C6_BothWays(t))
    /\ [][\A t \in Tasks :
            /\ (ElapsedPending(t) /\ ~PressOn(t) /\ presses' # presses) =>
                    View(Tables', t) = IdleView(t)
            /\ (IsPending(t) /\ last' = [kind |-> "t1", task |-> t]
                    /\ loop_t1' # loop_t1) =>
                    View(Tables', t) = IdleView(t)
            /\ (~IsPending(t) /\ ~PressOn(t) /\ presses' # presses) =>
                    /\ pending'[t] = None
                    /\ reset_timers'[t] = reset_timers[t]
                    /\ commits'[t] = commits[t]
                    /\ displayed'[t] = displayed[t]]_vars

\* Task a was pressed once and is Idle again, and b was pressed after a's
\* window had elapsed.
C6_Witness ==
    /\ presses = [a |-> 1, b |-> 1]
    /\ last = [kind |-> "press", task |-> "b"]
    /\ pending["b"] = now
    /\ now > CONFIRMATION_TIMEOUT
    /\ View(Tables, "a") = IdleView("a")
    /\ commits["a"] = 0

\* ==================================================================== C7
\* The ways a first press is resolved, told from the step taken.
ByCommit(t) == SecondPress(t) /\ pending'[t] = None /\ confirmed'[t] = now

ByRestart(t) ==
    StalePress(t) /\ pending'[t] = now /\ owner'[t] = presses'[t]
        /\ commits'[t] = commits[t]

ByT1(t) ==
    /\ last' = [kind |-> "t1", task |-> t]
    /\ presses' = presses
    /\ \E tm \in loop_t1 \ loop_t1' : tm.task = t /\ tm.id = owner[t]
    /\ pending'[t] = None
    /\ commits'[t] = commits[t]

BySweep(t) ==
    /\ \E u \in Tasks \ {t} : PressOn(u)
    /\ ElapsedPending(t)
    /\ pending'[t] = None
    /\ commits'[t] = commits[t]

\* C7: commit and timeout exclude each other.  Every scheduled T1 belongs
\* to the first press that is still unresolved, so none is left for a first
\* press that was committed, reset or restarted; a first press is resolved
\* by one of commit, T1, sweep or stale restart, in one step that takes its
\* T1 off the loop, and is never resolved again; and a press that finds the
\* task not pending is a first press, never a commit.
C7_CommitTimeoutExclusive ==
    /\ [](\A tm \in loop_t1 :
            IsPending(tm.task) /\ owner[tm.task] = tm.id)
    /\ [][\A t \in Tasks :
            /\ (owner[t] # 0 /\ owner'[t] # owner[t]) =>
                    /\ ByCommit(t) \/ ByRestart(t) \/ ByT1(t) \/ BySweep(t)
                    /\ \A tm \in loop_t1' : ~(tm.task = t /\ tm.id = owner[t])
                    /\ owner'[t] = 0 \/ owner'[t] > owner[t]
            /\ (PressOn(t) /\ ~IsPending(t)) =>
                    /\ commits' = commits
                    /\ pending'[t] = now
                    /\ owner'[t] = presses'[t]]_vars

\* A second press committed for task a; late in the run no T1 is scheduled
\* and a is not pending.
C7_Witness ==
    /\ presses["a"] = 2
    /\ commits["a"] = 1
    /\ loop_t1 = {}
    /\ pending["a"] = None
    /\ now > CONFIRMATION_TIMEOUT + CONFIRMATION_TIMEOUT + 1

\* ==================================================================== C8
\* C8: a superseded timer never acts on a newer state.  Every T1 callback
\* that runs is the timer the handle table holds for its task, armed
\* CONFIRMATION_TIMEOUT after the first press now pending and by that very
\* press; so a T1 armed for an earlier first press never runs, and none
\* clears the pending entry of a later press.
C8_NoStaleTimer ==
    [][\A tm \in loop_t1 \ loop_t1' :
          presses' = presses =>
              /\ last' = [kind |-> "t1", task |-> tm.task]
              /\ IsPending(tm.task)
              /\ owner[tm.task] = tm.id
              /\ reset_timers[tm.task] = tm.id
              /\ tm.when = pending[tm.task] + CONFIRMATION_TIMEOUT
              /\ now > tm.when]_vars

\* T1 has reset task a for its second press, which was made after the window
\* of the first had elapsed.
C8_Witness ==
    /\ last = [kind |-> "t1", task |-> "a"]
    /\ presses = [a |-> 2, b |-> 0]
    /\ commits["a"] = 0
    /\ pending["a"] = None
    /\ now = CONFIRMATION_TIMEOUT + 1 + CONFIRMATION_TIMEOUT + 1

\* ==================================================================== C9
\* The T2 that a confirming press on t arms.
T2For(t) ==
    [task |-> t, id |-> presses'[t], when |-> now + CONFIRMED_DISPLAY_TIME]

\* A confirmation records confirmed_at, shows the confirmed indicator and
\* arms T2.
C9_T2Armed ==
    [][\A t \in Tasks :
          SecondPress(t) =>
              /\ confirmed'[t] = now
              /\ displayed'[t] = ICON_CONFIRMED
              /\ T2For(t) \in loop_t2']_vars

\* When T2 runs with no press on its task since the confirmation, the task
\* is Idle and the refresh shows the default indicator.
C9_T2Clears ==
    [][\A tm \in loop_t2 \ loop_t2' :
          tm.id = presses[tm.task] => IdleDefault(tm.task)']_vars

\* The first press on an Idle task shows the pending indicator.
C9_FirstShowsPending ==
    [][\A t \in Tasks :
          (PressOn(t) /\ ~IsPending(t) /\ ~IsConfirmed(t)) =>
              displayed'[t] = ICON_PENDING]_vars

\* C9: after a confirmation at confirmed_at, T2 is armed for
\* CONFIRMED_DISPLAY_TIME; when T2 fires the task is Idle, the confirmed
\* entry gone and the default indicator shown; the indicators of a double
\* press with no further press are default, pending, confirmed, default.
C9_ConfirmedThenDefault ==
    C9_T2Armed /\ C9_T2Clears /\ C9_FirstShowsPending

\* =================================================================== C10
\* C10: at every read the indicator follows the task's phase: Idle gives the
\* default icon, PendingFirstPress the pending icon, RecentlyConfirmed the
\* confirmed icon.
C10_IconByPhase ==
    \A t \in Tasks :
        /\ (~IsPending(t) /\ ~IsConfirmed(t)) => icon(Tables, t) = ICON_DEFAULT
        /\ IsPending(t) => icon(Tables, t) = ICON_PENDING
        /\ IsConfirmed(t) => icon(Tables, t) = ICON_CONFIRMED

\* =================================================================== C11
\* C11: reading the indicator has no side effect.  In every reachable state
\* the icon property of every task leaves the pending entries, the
\* confirmed entries and the timer handles as they are.
C11_IconReadPure ==
    \A t \in Tasks :
        LET S == icon_effect(Tables, t)
        IN  /\ S.pending = pending
            /\ S.confirmed = confirmed
            /\ S.reset_timers = reset_timers

\* =================================================================== C12
\* The phase of t changes in this step: its pending entry or its confirmed
\* entry is written, replaced or removed.
PhaseChanged(t) == pending'[t] # pending[t] \/ confirmed'[t] # confirmed[t]

\* A handler of the button ran in this step: a press, or a timer callback.
HandlerRan == presses' # presses \/ loop_t1' # loop_t1 \/ loop_t2' # loop_t2

\* C12: every phase transition of a task requests a display refresh for
\* that task, and a handler requests no refresh for a task whose phase it
\* did not change.
C12_RefreshOnTransition ==
    [][\A t \in Tasks :
          /\ PhaseChanged(t) => t \in refreshed'
          /\ (HandlerRan /\ t \in refreshed') => PhaseChanged(t)]_vars

\* =================================================================== C13
\* A confirmed entry whose display time ends within the model's horizon.
ConfirmedInHorizon(t) ==
    IsConfirmed(t) /\ confirmed[t] + CONFIRMED_DISPLAY_TIME < MaxTime

\* C13: a failed commit does not leave the task stuck.  Whatever the store
\* did on the confirming press, and with no further press or read needed,
\* the confirmed entry eventually goes and stays away.
C13_FailedCommitNotStuck ==
    \A t \in Tasks : ConfirmedInHorizon(t) ~> ~IsConfirmed(t)

\* =================================================================== C14
\* What the claim says a commit passes for a task record and the state of
\* its odometer entity at the second press.
ClaimedOdometer(task, hs) ==
    IF /\ task.interval_type \in DistanceTypes
       /\ task.odometer_entity # ""
       /\ hs = [exists |-> TRUE, state |-> "1500"]
    THEN 1500
    ELSE None

\* C14: every store update a press issues carries the odometer reading
\* sampled at that press when the task is kilometers or miles and the
\* entity's state is a number, and None for a missing, unknown, unavailable
\* or non-numeric state and for every calendar task; whether the update is
\* issued does not depend on the reading.
C14_PerformedOdometer ==
    /\ [](\A task \in [interval_type : IntervalTypes,
                        odometer_entity : {"", "sensor.odometer"}],
             hs \in EntityStates :
               performed_odometer(task, hs) = ClaimedOdometer(task, hs))
    /\ [][\A t \in Tasks :
            /\ commits'[t] = commits[t] + 1 =>
                  \E hs \in EntityStates :
                      update_calls' =
                          {[task |-> t, state |-> hs,
                            performed_odometer |-> ClaimedOdometer(TaskOf[t], hs)]}
            /\ PressOn(t) =>
                  \A hs \in EntityStates :
                      async_press(Tables, t, presses'[t], store, hs).commits
                          = commits']_vars

\* The distance task a was committed with the numeric reading its odometer
\* entity showed at the second press.
C14_Witness ==
    /\ commits["a"] = 1
    /\ last = [kind |-> "press", task |-> "a"]
    /\ update_calls = {[task |-> "a", state |-> [exists |-> TRUE, state |-> "1500"],
                        performed_odometer |-> 1500]}

\* ============================================================ due state
\* What a poll of the sensor computes in this state.
Computed == update_state(sensor_task, hass_state, dt_now)

\* The sensor has been polled since its inputs last changed.
Polled == sensor = Computed

IsDistanceTask == sensor_task.interval_type \in DistanceTypes

Parsable == sensor_task.last_performed \in DOMAIN Parsed

\* last_performed as the sensor reads it: the parsed datetime, a naive one
\* taken to UTC.
LastPerformed ==
    LET parsed == Parsed[sensor_task.last_performed]
    IN  IF parsed.aware THEN parsed ELSE as_utc(parsed)

\* The odometer reading the sensor can use, None when there is none: no
\* entity configured, no state object, or a state that is not a number.
ReadingIn(hs) ==
    IF sensor_task.odometer_entity = "" THEN None
    ELSE IF hs = [exists |-> TRUE, state |-> "1500"] THEN 1500
    ELSE IF hs = [exists |-> TRUE, state |-> "1501"] THEN 1501
    ELSE None

Reading == ReadingIn(hass_state)

\* =================================================================== C15
\* C15: distance branch.  For a kilometers or miles task with last_odometer
\* L and interval_value V, next_due_odometer is L + V; the task is due iff L
\* is present, the reading is present and reading >= L + V; with L or the
\* reading absent the task is not due and next_due is "unknown (odometer
\* not available)"; the result is always a state, never an error.
C15_DistanceBranch ==
    IsDistanceTask =>
        LET L == sensor_task.last_odometer
            V == sensor_task.interval_value
        IN  /\ Computed.is_on \in BOOLEAN
            /\ L # None => Computed.next_due_odometer = L + V
            /\ Computed.is_on <=> (L # None /\ Reading # None /\ Reading >= L + V)
            /\ (L = None \/ Reading = None) =>
                   Computed.next_due = "unknown (odometer not available)"
            /\ Computed.current_odometer = Reading

\* A polled kilometers task whose reading is exactly L + V: due.
C15_Witness ==
    /\ Polled
    /\ sensor_task.interval_type = "kilometers"
    /\ sensor_task.last_odometer = 1499
    /\ sensor_task.interval_value = 1
    /\ sensor.current_odometer = 1500
    /\ sensor.is_on
    /\ sensor.next_due = "1500 kilometers"

\* =================================================================== C16
\* C16: unrecognized interval type.  For a task whose interval_type is none
\* of days, weeks, months, kilometers, miles and whose last_performed
\* parses, the sensor is not due whatever the clock shows, and next_due is
\* last_performed passed through.
C16_UnrecognizedType ==
    (sensor_task.interval_type \notin IntervalTypes /\ Parsable) =>
        /\ Computed.is_on = FALSE
        /\ Computed.next_due = isoformat(replace_midnight(LastPerformed))

\* =================================================================== C17
\* The day a days or weeks task falls due: the day of last_performed as
\* written, plus N days or 7N days.
DueDay ==
    LET written == Parsed[sensor_task.last_performed]
        N == sensor_task.interval_value
    IN  toordinal(written.y, written.m, written.d)
            + (IF sensor_task.interval_type = "weeks" THEN 7 * N ELSE N)

\* C17: calendar branch, days and weeks.  With parsable last_performed the
\* task is not due on any day before the due day and is due from the first
\* instant of the due day on, whatever the hour of now and of
\* last_performed.
C17_DaysAndWeeks ==
    (sensor_task.interval_type \in {"days", "weeks"} /\ Parsable) =>
        (Computed.is_on <=> dt_now.ord >= DueDay)

\* =================================================================== C18
\* Months counted from year 0.
MonthIndex(dt) == (dt.y * 12) + dt.m - 1

\* C18: month arithmetic.  For a months task with interval_value N the due
\* date is in the calendar month N months after the month of last_performed,
\* on the same day of the month when the target month has it and on the
\* target month's last day otherwise; 2024-01-31 plus one month is
\* 2024-02-29 and 2023-01-31 plus one month is 2023-02-28.
C18_MonthArithmetic ==
    (sensor_task.interval_type = "months" /\ Parsable) =>
        LET N == sensor_task.interval_value
            due == calculate_next_due_date(LastPerformed, N, "months")
            last_day == DaysInMonth(due.y, due.m)
        IN  /\ MonthIndex(due) = MonthIndex(LastPerformed) + N
            /\ due.d = IF LastPerformed.d <= last_day
                       THEN LastPerformed.d ELSE last_day
            /\ Computed.next_due = isoformat(replace_midnight(due))
            /\ (sensor_task.last_performed = "2024-01-31T00:00:00+01:00" /\ N = 1)
                   => Computed.next_due = "2024-02-29T00:00:00+01:00"
            /\ (sensor_task.last_performed = "2023-01-31T00:00:00+01:00" /\ N = 1)
                   => Computed.next_due = "2023-02-28T00:00:00+01:00"
            /\ (sensor_task.last_performed = "2024-01-31T00:00:00+01:00" /\ N = 2)
                   => Computed.next_due = "2024-03-31T00:00:00+01:00"

\* A polled months task last performed on 2024-01-31: next due 2024-02-29.
C18_Witness ==
    /\ Polled
    /\ sensor_task.interval_type = "months"
    /\ sensor_task.interval_value = 1
    /\ sensor_task.last_performed = "2024-01-31T00:00:00+01:00"
    /\ sensor.next_due = "2024-02-29T00:00:00+01:00"
    /\ sensor.is_on
    /\ dt_now.ord > WindowStart

\* =================================================================== C19
\* C19: an unparsable date fails open.  For every task that is not a
\* kilometers or miles task and whose last_performed does not parse, the
\* sensor is due and next_due is "unknown" whatever the clock and the
\* interval_value, and last_performed is echoed in the attributes.
C19_UnparsableFailsOpen ==
    (~IsDistanceTask /\ ~Parsable) =>
        /\ Computed.is_on = TRUE
        /\ Computed.next_due = "unknown"
        /\ Computed.last_performed = sensor_task.last_performed

\* A polled weeks task with an unparsable date, days into the window: due.
C19_Witness ==
    /\ Polled
    /\ sensor_task.interval_type = "weeks"
    /\ sensor_task.last_performed = "31/01/2024"
    /\ sensor_task.interval_value = MaxInterval
    /\ dt_now = [ord |-> WindowStart + 3, hh |-> 23]
    /\ sensor.is_on
    /\ sensor.next_due = "unknown"
    /\ sensor.last_performed = "31/01/2024"

\* =================================================================== C20
\* The values the wall clock takes.
ClockValues == [ord : WindowStart..(WindowStart + MaxDays), hh : {0, 23}]

\* is_on and the next-due values of a sensor state.
DueOutput(st) == <<st.is_on, st.next_due, st.next_due_odometer>>

\* C20: interval_type selects one branch and the other branch's inputs are
\* ignored.  For a distance task, a run with any other last_performed and
\* any other clock gives the same is_on and next-due values; for any other
\* task, a run with any other last_odometer, odometer_entity and odometer
\* state gives the same.
C20_OtherBranchIgnored ==
    LET out == DueOutput(Computed)
    IN  /\ IsDistanceTask =>
              \A lp \in LastPerformedStrings, nw \in ClockValues :
                  DueOutput(update_state(
                      [sensor_task EXCEPT !.last_performed = lp],
                      hass_state, nw)) = out
        /\ ~IsDistanceTask =>
              \A lo \in {None, 1498, 1499}, oe \in {"", "sensor.odometer"},
                 hs \in EntityStates :
                  DueOutput(update_state(
                      [sensor_task EXCEPT !.last_odometer = lo,
                                          !.odometer_entity = oe],
                      hs, dt_now)) = out

\* A polled days task that is not yet due although its odometer reading has
\* passed last_odometer + interval_value.
C20_Witness ==
    /\ Polled
    /\ sensor_task.interval_type = "days"
    /\ sensor_task.interval_value = 2
    /\ sensor_task.last_performed = "2024-03-25T00:00:00+01:00"
    /\ sensor_task.last_odometer = 1498
    /\ sensor_task.odometer_entity = "sensor.odometer"
    /\ hass_state = [exists |-> TRUE, state |-> "1500"]
    /\ dt_now = [ord |-> WindowStart + 1, hh |-> 23]
    /\ ~sensor.is_on

\* =================================================================== C21
\* C21: the confirmed indicator implies a performed commit.  Whenever a
\* handler records confirmed_at for a task, that handler is a press on the
\* task and it issues a store update for it, the press that finds no store
\* included.
C21_ConfirmedImpliesCommit ==
    [][\A t \in Tasks :
          (confirmed'[t] # None /\ confirmed'[t] # confirmed[t]) =>
              /\ PressOn(t)
              /\ commits'[t] = commits[t] + 1
              /\ \E c \in update_calls' : c.task = t]_vars

\* =================================================================== C22
\* C22: pending entries and armed T1 timers stay paired.  Between handlers
\* a task has a handle in _reset_timers exactly when it has an entry in
\* _pending_confirmations, and the handle is a timer still scheduled on the
\* loop, due CONFIRMATION_TIMEOUT after that entry's first_press_at; so no
\* cancelled or fired handle is left in the table.
C22_PendingTimerPaired ==
    \A t \in Tasks :
        /\ reset_timers[t] # NoHandle <=> IsPending(t)
        /\ reset_timers[t] # NoHandle =>
              [task |-> t, id |-> reset_timers[t],
               when |-> pending[t] + CONFIRMATION_TIMEOUT] \in loop_t1

\* Task a was committed by its second press, which dropped its handle; task
\* b was pressed once afterwards and holds a scheduled T1.
C22_Witness ==
    /\ last = [kind |-> "press", task |-> "b"]
    /\ presses = [a |-> 2, b |-> 1]
    /\ commits["a"] = 1
    /\ ~IsPending("a")
    /\ reset_timers["a"] = NoHandle
    /\ IsPending("b")
    /\ reset_timers["b"] = 1
    /\ \E tm \in loop_t1 : tm.task = "b" /\ tm.id = 1

\* =================================================================== C23
\* C23: cross-task isolation.  A press on task t issues no store update for
\* another task u, writes no pending or confirmed entry of u, and leaves
\* u's handle and scheduled T1 alone while u's window is open; all it may do
\* to u is delete u's pending entry when now - first_press_at >
\* CONFIRMATION_TIMEOUT, and u's confirmed entry when now - confirmed_at >
\* CONFIRMED_DISPLAY_TIME.
C23_CrossTaskIsolation ==
    [][\A t, u \in Tasks :
          (t # u /\ PressOn(t)) =>
              /\ commits'[u] = commits[u]
              /\ \A c \in update_calls' : c.task # u
              /\ \/ pending'[u] = pending[u]
                 \/ /\ pending'[u] = None
                    /\ IsPending(u)
                    /\ now - pending[u] > CONFIRMATION_TIMEOUT
              /\ \/ confirmed'[u] = confirmed[u]
                 \/ /\ confirmed'[u] = None
                    /\ IsConfirmed(u)
                    /\ now - confirmed[u] > CONFIRMED_DISPLAY_TIME
              /\ (IsPending(u) /\ now - pending[u] <= CONFIRMATION_TIMEOUT) =>
                    /\ reset_timers'[u] = reset_timers[u]
                    /\ {tm \in loop_t1' : tm.task = u}
                           = {tm \in loop_t1 : tm.task = u}]_vars

\* Task b was pressed while task a was pending with its window open: a's
\* entry, handle and T1 are as a's first press left them.
C23_Witness ==
    /\ last = [kind |-> "press", task |-> "b"]
    /\ presses = [a |-> 1, b |-> 1]
    /\ pending["b"] = now
    /\ IsPending("a")
    /\ pending["a"] < now
    /\ now - pending["a"] <= CONFIRMATION_TIMEOUT
    /\ reset_timers["a"] = 1
    /\ [task |-> "a", id |-> 1,
        when |-> pending["a"] + CONFIRMATION_TIMEOUT] \in loop_t1

\* =================================================================== C24
\* The task is one whose due status the rule speaks of: a days, weeks or
\* months task whose last_performed parses, or a distance task with a
\* last_odometer.
Monotone ==
    \/ sensor_task.interval_type \in {"days", "weeks", "months"} /\ Parsable
    \/ IsDistanceTask /\ sensor_task.last_odometer # None

\* The clock values from dt_now on.
LaterClock ==
    {nw \in ClockValues :
        nw.ord > dt_now.ord \/ (nw.ord = dt_now.ord /\ nw.hh >= dt_now.hh)}

\* The odometer states that carry a reading of at least the current one.
HigherReadings ==
    {hs \in OdometerStates : ReadingIn(hs) # None /\ ReadingIn(hs) >= Reading}

\* Due at dt_now stays due at every later clock value (calendar task), due
\* at the current reading stays due at every reading at least as high
\* (distance task).
DueStaysDue ==
    (Monotone /\ Computed.is_on) =>
        IF IsDistanceTask
        THEN \A hs \in HigherReadings :
                 update_state(sensor_task, hs, dt_now).is_on
        ELSE \A nw \in LaterClock :
                 update_state(sensor_task, hass_state, nw).is_on

\* A step on which a task the rule speaks of, its record unchanged, stops
\* being due.
StopsBeingDue ==
    /\ Monotone
    /\ sensor_task' = sensor_task
    /\ Computed.is_on
    /\ ~update_state(sensor_task, hass_state', dt_now').is_on

\* C24: due status is monotone while the task record is unchanged.  A
\* calendar task with a parsable last_performed that is due stays due at
\* every later now, a distance task with a last_odometer that is due at a
\* reading stays due at every reading at least as high, and with the task
\* record unchanged such a task never stops being due.
C24_DueMonotone ==
    /\ []DueStaysDue
    /\ [][~StopsBeingDue]_vars

\* C24 (amended): as above, but with the task record unchanged a distance
\* task may stop being due, and only when its odometer reading is lost or
\* falls; a calendar task never stops.
C24_DueMonotoneWhileRead ==
    /\ []DueStaysDue
    /\ [][StopsBeingDue =>
              /\ IsDistanceTask
              /\ \/ ReadingIn(hass_state') = None
                 \/ ReadingIn(hass_state') < Reading]_vars

\* A polled kilometers task that is due from 1500 on, read at 1501 on a
\* later day: due.
C24_Witness ==
    /\ Polled
    /\ sensor_task.interval_type = "kilometers"
    /\ sensor_task.last_odometer = 1499
    /\ sensor_task.interval_value = 1
    /\ hass_state = [exists |-> TRUE, state |-> "1501"]
    /\ dt_now.ord > WindowStart
    /\ sensor.current_odometer = 1501
    /\ sensor.is_on

\* =================================================================== C25
\* The last command was given a last_performed that is not empty and does
\* not parse.
UnparsableGiven ==
    /\ ws_msg.fields.has_last_performed
    /\ ws_msg.fields.last_performed \notin DOMAIN ParsedMessage \cup {""}

\* Local midnight of the local day on which each parsable string falls.
LocalMidnightOf ==
    ("2024-03-25T00:00:00+01:00" :> "2024-03-25T00:00:00+01:00") @@
    ("2024-02-29T00:00:00+01:00" :> "2024-02-29T00:00:00+01:00") @@
    ("2024-01-31T00:00:00+01:00" :> "2024-01-31T00:00:00+01:00") @@
    ("2023-01-31T00:00:00+01:00" :> "2023-01-31T00:00:00+01:00") @@
    ("2024-03-25T22:00:00" :> "2024-03-25T00:00:00+01:00") @@
    ("2024-03-31T23:00:00+00:00" :> "2024-04-01T00:00:00+02:00")

\* Local midnight of the day the last command was handled on.
MidnightToday ==
    LET c == fromordinal(ws_msg.at.ord)
    IN  ToString(c.y) \o "-" \o Pad2(c.m) \o "-" \o Pad2(c.d) \o "T00:00:00+0"
            \o (IF ws_msg.at.ord <= DstStart THEN "1" ELSE "2") \o ":00"

\* The last command rejected the date: one invalid_date error, no success
\* result, no store call.
Rejected ==
    /\ connection = <<[type |-> "error", code |-> "invalid_date"]>>
    /\ store_log = <<>>

\* The last command handed the store one call, of its own operation, with
\* last_performed at local midnight of the parsed date, or of today when the
\* message carries no date.
StoredAtLocalMidnight ==
    /\ Len(store_log) = 1
    /\ store_log[1].op = (IF ws_msg.type = "add_task" THEN "add" ELSE "update_task")
    /\ store_log[1].last_performed =
           IF ws_msg.fields.has_last_performed
                  /\ ws_msg.fields.last_performed # ""
           THEN LocalMidnightOf[ws_msg.fields.last_performed]
           ELSE MidnightToday

\* C25: add_task and update_task reject an unparsable date without touching
\* the store.  After either command: when last_performed was non-empty and
\* did not parse, an invalid_date error was sent, no success result, and the
\* store was not called; in every other case the store was handed a
\* last_performed at local midnight, of the parsed date or of today.
C25_RejectUnparsableDate ==
    ws_msg.type # "none" =>
        IF UnparsableGiven THEN Rejected ELSE StoredAtLocalMidnight

====
